---- MODULE Spec2Model ----
(***************************************************************************)
(* State-machine model of src/index.js: the interaction dispatcher with    *)
(* its per-(command, user) cooldown registry, and the process lifecycle    *)
(* (environment validation, gateway login, termination signals, the        *)
(* process-level fault handlers).                                          *)
(*                                                                         *)
(* Time is the value of Date.now() in milliseconds, observed every Tick    *)
(* milliseconds.  A setTimeout callback runs at some observed instant not  *)
(* earlier than its due time: the event loop never runs it early, and may  *)
(* run it late.                                                            *)
(***************************************************************************)
EXTENDS Integers, Sequences, FiniteSets, Bags, TLC

\* ---------------------------------------------------------------- bounds
Tick == 1000
MaxTicks == 3
MaxEvents == 3
MaxInFlight == 3

MaxTime == MaxTicks * Tick

\* ------------------------------------------------------ program constants
DefaultCooldown == 3
FaultExitDelay == 1000
ShutdownExitDelay == 1500

\* checkRequiredEnvVars: const required = ['DISCORD_TOKEN', 'CLIENT_ID']
required == <<"DISCORD_TOKEN", "CLIENT_ID">>

EnvNames == {required[i] : i \in 1..Len(required)}

\* A value of process.env: not set, set to the empty string, set to text.
EnvValues == {"unset", "", "value"}

\* JavaScript truthiness of a process.env value.
Truthy(v) == v \notin {"unset", ""}

\* client.commands (filled by commands.js): name -> the command's cooldown
\* field, in seconds; declared is FALSE when the command has no such field.
Commands ==
  [ping |-> [declared |-> TRUE, cooldown |-> 1],
   info |-> [declared |-> FALSE, cooldown |-> 0]]

CommandNames == DOMAIN Commands

\* Names an interaction may carry; "gone" is not in client.commands.
InteractionNames == CommandNames \cup {"gone"}

Users == {"U1", "U2"}

\* The user of the button interactions: the handler never reads it.
ButtonUser == "U1"

\* customId of a button, as its leading token and the rest; the second one
\* holds 'ticket_' but does not start with it.
CustomIds == {<<"ticket_", "create">>, <<"poll_", "ticket_">>}

TicketPrefix == "ticket_"

\* Mutant: customId.includes(prefix)
Includes(customId, prefix) == \E i \in 1..Len(customId) : customId[i] = prefix

\* customId.startsWith(prefix)
StartsWith(customId, prefix) == Len(customId) >= 1 /\ customId[1] = prefix

VARIABLES
  env,          \* process.env restricted to the required names
  initPc,       \* position of init(): Uninitialized, Validating, Connecting, Done
  diagnostic,   \* names printed by checkRequiredEnvVars, in order
  loginCalls,   \* number of client.login calls
  ready,        \* client.isReady()
  readyFired,   \* the once(ClientReady) listener has run
  exitCode,     \* <<>> until process.exit(code), then <<code>>
  exitTimers,   \* pending setTimeout callbacks that call process.exit
  shutdownRuns, \* number of runs of gracefulShutdown
  destroyCalls, \* number of client.destroy calls
  faults,       \* faults that reached a process-level handler or the
                \* client's Error listener
  now,          \* Date.now()
  cooldowns,    \* client.cooldowns
  timers,       \* pending removal timers of cooldown entries
  tasks,        \* bag of the interaction handlers suspended at an await
  nextId,       \* number of external events received so far, plus one
  lastAllowed,  \* history: per pair, the time of its latest Allowed
                \* invocation, kept while now is inside that cooldown window
  emitted,      \* log lines written by the latest step
  routed        \* how the latest step routed an interaction, if it did

lifecycleVars == <<env, initPc, diagnostic, loginCalls, ready, readyFired,
                   exitCode, exitTimers, shutdownRuns, destroyCalls>>
routerVars == <<cooldowns, timers, tasks, nextId, lastAllowed>>
vars == <<env, initPc, diagnostic, loginCalls, ready, readyFired, exitCode,
          exitTimers, shutdownRuns, destroyCalls, faults, now,
          cooldowns, timers, tasks, nextId, lastAllowed, emitted, routed>>

\* ------------------------------------------------------------- helpers
Range(s) == {s[i] : i \in 1..Len(s)}

\* s without its i-th element.
RemoveAt(s, i) == SubSeq(s, 1, i - 1) \o SubSeq(s, i + 1, Len(s))

\* Maps (functions with a finite domain): set, delete.
Put(f, k, v) == [x \in DOMAIN f \cup {k} |-> IF x = k THEN v ELSE f[x]]

Delete(f, k) == [x \in DOMAIN f \ {k} |-> f[x]]

EmptyMap == [x \in {} |-> 0]

\* No process.exit has been called.
Running == exitCode = <<>>

\* External events (interactions, signals, faults raised outside this file)
\* arrive at most MaxEvents times, and not after MaxTime.
EventBudget == nextId <= MaxEvents /\ now <= MaxTime

\* The routing of one interaction: its kind, command name (or customId
\* prefix) and user, the outcome, and for a throttled command the remaining
\* time in milliseconds and as shown in the reply (tenths of a second).
Route(kind, name, user, outcome, timeLeft, shown) ==
  [kind |-> kind, name |-> name, user |-> user, outcome |-> outcome,
   timeLeft |-> timeLeft, shown |-> shown]

NoRoute == Route("none", "", "", "none", 0, 0)

\* --------------------------------------------------------------- startup
\* Mutant: only the first missing name is found (find in place of filter).
MissingFirstOnly(e) ==
  LET all == SelectSeq(required, LAMBDA v : ~Truthy(e[v]))
  IN IF all = <<>> THEN <<>> ELSE <<all[1]>>

\* checkRequiredEnvVars: required.filter(envVar => !process.env[envVar])
MissingEnvVars(e) == SelectSeq(required, LAMBDA v : ~Truthy(e[v]))

Init ==
  /\ env \in [EnvNames -> EnvValues]
  /\ initPc = "Uninitialized"
  /\ diagnostic = <<>>
  /\ loginCalls = 0
  /\ ready = FALSE
  /\ readyFired = FALSE
  /\ exitCode = <<>>
  /\ exitTimers = <<>>
  /\ shutdownRuns = 0
  /\ destroyCalls = 0
  /\ faults = {}
  /\ now = 0
  /\ cooldowns = EmptyMap
  /\ timers = <<>>
  /\ tasks = EmptyBag
  /\ nextId = 1
  /\ lastAllowed = EmptyMap
  /\ emitted = {}
  /\ routed = NoRoute

\* The module body calls init(), which enters its try block.
StartInit ==
  /\ Running
  /\ initPc = "Uninitialized"
  /\ initPc' = "Validating"
  /\ emitted' = {}
  /\ routed' = NoRoute
  /\ UNCHANGED <<env, diagnostic, loginCalls, ready, readyFired, exitCode,
                 exitTimers, shutdownRuns, destroyCalls, faults, now,
                 cooldowns, timers, tasks, nextId, lastAllowed>>

\* init(): checkRequiredEnvVars(), then setupLogger() and client.login(),
\* at whose await init() suspends.  process.exit(1) ends the process inside
\* checkRequiredEnvVars, before anything else of init() runs.
CheckRequiredEnvVars ==
  /\ Running
  /\ initPc = "Validating"
  /\ LET missing == MissingEnvVars(env) IN
       IF Len(missing) > 0
       THEN /\ diagnostic' = missing
            /\ exitCode' = <<1>>
            /\ emitted' = {"missing environment variables"}
            /\ UNCHANGED <<initPc, loginCalls>>
       ELSE /\ initPc' = "Connecting"
            /\ loginCalls' = loginCalls + 1
            /\ emitted' = {"starting bot"}
            /\ UNCHANGED <<diagnostic, exitCode>>
  /\ routed' = NoRoute
  /\ UNCHANGED <<env, ready, readyFired, exitTimers, shutdownRuns,
                 destroyCalls, faults, now, cooldowns, timers, tasks,
                 nextId, lastAllowed>>

\* await client.login(config.token) resolves: init() returns.
LoginResolves ==
  /\ Running
  /\ initPc = "Connecting"
  /\ initPc' = "Done"
  /\ emitted' = {}
  /\ routed' = NoRoute
  /\ UNCHANGED <<env, diagnostic, loginCalls, ready, readyFired, exitCode,
                 exitTimers, shutdownRuns, destroyCalls, faults, now,
                 cooldowns, timers, tasks, nextId, lastAllowed>>

\* Mutant: the catch block of init() logs and does not exit.
LoginRejectsNoExit ==
  /\ Running
  /\ initPc = "Connecting"
  /\ ~readyFired
  /\ emitted' = {"initialization error"}
  /\ routed' = NoRoute
  /\ UNCHANGED <<env, initPc, diagnostic, loginCalls, ready, readyFired,
                 exitCode, exitTimers, shutdownRuns, destroyCalls, faults,
                 now, cooldowns, timers, tasks, nextId, lastAllowed>>

\* await client.login(config.token) rejects: the catch block of init().
LoginRejects ==
  /\ Running
  /\ initPc = "Connecting"
  /\ ~readyFired
  /\ exitCode' = <<1>>
  /\ emitted' = {"initialization error"}
  /\ routed' = NoRoute
  /\ UNCHANGED <<env, initPc, diagnostic, loginCalls, ready, readyFired,
                 exitTimers, shutdownRuns, destroyCalls, faults, now,
                 cooldowns, timers, tasks, nextId, lastAllowed>>

\* ------------------------------------------------ process-level handlers
\* process.on('unhandledRejection'): logs, and nothing else.
UnhandledRejectionTimers(ts, t) == ts

\* Mutant: the uncaughtException handler logs and schedules no exit.
UncaughtExceptionNoExit(ts, t) == ts

\* process.on('uncaughtException'): logs, then
\* setTimeout(() => process.exit(1), 1000).
UncaughtExceptionTimers(ts, t) ==
  Append(ts, [code |-> 1, due |-> t + FaultExitDelay])

\* client.on(Events.Error): logs, and nothing else.
ClientErrorTimers(ts, t) == ts

\* A fault reaches a process-level handler or the client's Error listener.
\* kind is the handler, origin is where the fault was raised.
ProcessFault(kind, origin) ==
  /\ faults' = faults \cup {[kind |-> kind, origin |-> origin]}
  /\ exitTimers' = IF kind = "uncaughtException"
                   THEN UncaughtExceptionTimers(exitTimers, now)
                   ELSE IF kind = "unhandledRejection"
                   THEN UnhandledRejectionTimers(exitTimers, now)
                   ELSE ClientErrorTimers(exitTimers, now)

\* The process-level fault handlers.
FaultKinds == {"uncaughtException", "unhandledRejection"}

\* Where the rejection of an async listener's promise goes: to the client's
\* Error listener when the client's emitter captures rejections, to
\* process.on('unhandledRejection') when it does not.  The library decides.
RejectionSinks == {"clientError", "unhandledRejection"}

FaultLog(kind) ==
  IF kind = "uncaughtException" THEN "uncaught exception"
  ELSE IF kind = "unhandledRejection" THEN "unhandled rejection"
  ELSE "client error"

\* A fault raised outside the handlers of this file (a library callback,
\* a promise nobody awaits).
ExternalFault(kind) ==
  /\ Running
  /\ initPc \in {"Connecting", "Done"}
  /\ EventBudget
  /\ nextId' = nextId + 1
  /\ ProcessFault(kind, "external")
  /\ emitted' = {FaultLog(kind)}
  /\ routed' = NoRoute
  /\ UNCHANGED <<env, initPc, diagnostic, loginCalls, ready, readyFired,
                 exitCode, shutdownRuns, destroyCalls, now,
                 cooldowns, timers, tasks, lastAllowed>>

\* ------------------------------------------------------------- shutdown
\* Mutant: gracefulShutdown closes the session and schedules no exit.
GracefulShutdownNoExit ==
  /\ shutdownRuns' = shutdownRuns + 1
  /\ IF ready
     THEN /\ destroyCalls' = destroyCalls + 1
          /\ ready' = FALSE
          /\ emitted' = {"shutdown initiated", "shutting down", "client destroyed"}
     ELSE /\ UNCHANGED <<destroyCalls, ready>>
          /\ emitted' = {"shutdown initiated", "shutting down"}
  /\ exitTimers' = exitTimers

\* gracefulShutdown(): log, client.destroy() if client.isReady(), then
\* setTimeout(() => process.exit(0), 1500).
GracefulShutdown ==
  /\ shutdownRuns' = shutdownRuns + 1
  /\ IF ready
     THEN /\ destroyCalls' = destroyCalls + 1
          /\ ready' = FALSE
          /\ emitted' = {"shutdown initiated", "shutting down", "client destroyed"}
     ELSE /\ UNCHANGED <<destroyCalls, ready>>
          /\ emitted' = {"shutdown initiated", "shutting down"}
  /\ exitTimers' = Append(exitTimers, [code |-> 0, due |-> now + ShutdownExitDelay])

TerminationSignals == {"SIGINT", "SIGTERM"}

\* process.on('SIGINT') / process.on('SIGTERM')
Signal(sig) ==
  /\ Running
  /\ initPc \in {"Connecting", "Done"}
  /\ EventBudget
  /\ nextId' = nextId + 1
  /\ GracefulShutdown
  /\ routed' = NoRoute
  /\ UNCHANGED <<env, initPc, diagnostic, loginCalls, readyFired, exitCode,
                 faults, now, cooldowns, timers, tasks, lastAllowed>>

\* A pending exit timer runs: process.exit(code).
ExitTimerFires(i) ==
  /\ Running
  /\ exitTimers[i].due <= now
  /\ exitCode' = <<exitTimers[i].code>>
  /\ exitTimers' = RemoveAt(exitTimers, i)
  /\ emitted' = IF exitTimers[i].code = 0 THEN {"shutdown complete"}
                ELSE {"crash exit"}
  /\ routed' = NoRoute
  /\ UNCHANGED <<env, initPc, diagnostic, loginCalls, ready, readyFired,
                 shutdownRuns, destroyCalls, faults, now, cooldowns,
                 timers, tasks, nextId, lastAllowed>>

\* ----------------------------------------------------------- ClientReady
\* How a synchronous throw of the once(ClientReady) listener surfaces
\* depends on whether the library emits the event from a plain callback or
\* from an async function.
StartupOutcomes == {"ok", "fails"}

\* client.once(Events.ClientReady): registerCommands(client) with its
\* .then/.catch, then initializeTicketSystem(client), unguarded.
ClientReady(reg, tick, kind) ==
  /\ Running
  /\ initPc \in {"Connecting", "Done"}
  /\ ~readyFired
  /\ destroyCalls = 0
  /\ readyFired' = TRUE
  /\ ready' = TRUE
  /\ IF tick = "fails"
     THEN ProcessFault(kind, "initializeTicketSystem")
     ELSE /\ kind = "unhandledRejection"
          /\ UNCHANGED <<faults, exitTimers>>
  /\ emitted' = {"bot is online"}
       \cup (IF reg = "fails" THEN {"failed to register commands"}
             ELSE {"commands registered"})
       \cup (IF tick = "fails" THEN {FaultLog(kind)} ELSE {})
  /\ routed' = NoRoute
  /\ UNCHANGED <<env, initPc, diagnostic, loginCalls, exitCode, shutdownRuns,
                 destroyCalls, now, cooldowns, timers, tasks, nextId,
                 lastAllowed>>

\* ------------------------------------------------------------ cooldowns
\* command.cooldown || 3
CooldownSeconds(command) ==
  IF command.declared /\ command.cooldown # 0 THEN command.cooldown
  ELSE DefaultCooldown

\* const cooldownAmount = (command.cooldown || 3) * 1000
CooldownAmount(name) == CooldownSeconds(Commands[name]) * 1000

\* timestamps.has(user) && now < timestamps.get(user) + cooldownAmount
IsThrottled(timestamps, user, amount, t) ==
  /\ user \in DOMAIN timestamps
  /\ t < timestamps[user] + amount

\* Mutant: the throttle branch restarts the window of the caller.
ThrottleBranchResets(cds, tms, name, user, t) ==
  [cooldowns |-> Put(cds, name, Put(cds[name], user, t)), timers |-> tms]

\* The registry and the timer queue after the throttle branch, which
\* replies and returns without writing.
ThrottleBranch(cds, tms, name, user, t) == [cooldowns |-> cds, timers |-> tms]

\* Mutant: the entry is recorded and no removal timer is set.
RecordBranchNoTimer(cds, tms, name, user, t) ==
  [cooldowns |-> Put(cds, name, Put(cds[name], user, t)), timers |-> tms]

\* timestamps.set(user, now); setTimeout(() => timestamps.delete(user),
\* cooldownAmount)
RecordBranch(cds, tms, name, user, t) ==
  [cooldowns |-> Put(cds, name, Put(cds[name], user, t)),
   timers |-> Append(tms, [name |-> name, user |-> user,
                           due |-> t + CooldownAmount(name)])]

\* The cooldown check of the InteractionCreate handler at time t: the
\* outcome, the remaining time in milliseconds, the registry and the timer
\* queue it leaves.
CheckAndRecord(cds, tms, name, user, t) ==
  LET cds1 == IF name \in DOMAIN cds THEN cds ELSE Put(cds, name, EmptyMap)
      amount == CooldownAmount(name)
  IN IF IsThrottled(cds1[name], user, amount, t)
     THEN [outcome |-> "Throttled",
           timeLeft |-> cds1[name][user] + amount - t]
          @@ ThrottleBranch(cds1, tms, name, user, t)
     ELSE [outcome |-> "Allowed", timeLeft |-> 0]
          @@ RecordBranch(cds1, tms, name, user, t)

\* (timeLeft / 1000).toFixed(1), in tenths of a second.
ToFixed1(ms) == (ms + 50) \div 100

\* Mutant: the removal timer empties the collection of the command.
RemovalTimerClears(cds, name, user) == [cds EXCEPT ![name] = EmptyMap]

\* The removal timer of (name, user) runs: timestamps.delete(user) on the
\* collection of the command.
RemovalTimer(cds, name, user) == [cds EXCEPT ![name] = Delete(@, user)]

\* A pending removal timer runs.
RemovalTimerFires(i) ==
  /\ Running
  /\ timers[i].due <= now
  /\ cooldowns' = RemovalTimer(cooldowns, timers[i].name, timers[i].user)
  /\ timers' = RemoveAt(timers, i)
  /\ emitted' = {}
  /\ routed' = NoRoute
  /\ UNCHANGED <<env, initPc, diagnostic, loginCalls, ready, readyFired,
                 exitCode, exitTimers, shutdownRuns, destroyCalls, faults,
                 now, tasks, nextId, lastAllowed>>

\* --------------------------------------------------------------- router
\* Mutant: the catch block sends the follow-up and then the reply as well.
ErrorNotificationTwice(t) ==
  [t EXCEPT !.pc = "notify", !.replies = @ + 2, !.notice = "followUp"]

\* Mutant: the catch block always sends a reply, also after the interaction
\* was replied to or deferred.
ErrorNotificationAlwaysReply(t) ==
  [t EXCEPT !.pc = "notify", !.replies = @ + 1, !.notice = "reply"]

\* The catch block of the InteractionCreate handler: log, then followUp if
\* interaction.replied || interaction.deferred, else reply, each with its
\* own .catch.
ErrorNotification(t) ==
  [t EXCEPT !.pc = "notify", !.replies = @ + 1,
            !.notice = IF t.acked THEN "followUp" ELSE "reply"]

\* The handler of an interaction as it enters its try block: nothing
\* called, no reply sent, interaction.replied and interaction.deferred
\* false.
NewTask ==
  [outcome |-> "none", pc |-> "start", execCalls |-> 0, replies |-> 0,
   notice |-> "none", acked |-> FALSE]

\* The suspended handlers, and their number.
Suspended == BagToSet(tasks)

InFlight == BagCardinality(tasks)

Suspend(t) == tasks (+) SetToBag({t})

Finish(t) == tasks (-) SetToBag({t})

\* Mutant: the throttle branch replies without returning, and the handler
\* goes on to call execute.
ThrottledTaskFallsThrough(t) ==
  [t EXCEPT !.outcome = "Throttled", !.pc = "execute", !.replies = 1,
            !.execCalls = 1]

\* The handler of a throttled command: return interaction.reply(...).
ThrottledTask(t) ==
  [t EXCEPT !.outcome = "Throttled", !.pc = "throttleReply", !.replies = 1]

\* The handler of an allowed command: await command.execute(interaction,
\* client) suspends the handler.  (A synchronous throw of execute reaches
\* the same catch block as a rejection: HandlerRejects.)
AllowedTask(t) ==
  [t EXCEPT !.outcome = "Allowed", !.pc = "execute", !.execCalls = 1]

\* Mutant: the per-command collection is created before the lookup result
\* is tested.
UnknownCommandCreatesMap(cds, name) ==
  IF name \in DOMAIN cds THEN cds ELSE Put(cds, name, EmptyMap)

\* The registry after the branch of a name that client.commands does not
\* hold: logger.warn, return.
UnknownCommand(cds, name) == cds

\* Events.InteractionCreate with interaction.isChatInputCommand().
ChatInputCommand(name, user) ==
  /\ Running
  /\ ready
  /\ EventBudget
  /\ nextId' = nextId + 1
  /\ IF name \notin CommandNames
     THEN /\ emitted' = {"command not found"}
          /\ routed' = Route("command", name, user, "Unknown", 0, 0)
          /\ cooldowns' = UnknownCommand(cooldowns, name)
          /\ UNCHANGED <<timers, tasks, lastAllowed>>
     ELSE /\ InFlight < MaxInFlight
          /\ LET res == CheckAndRecord(cooldowns, timers, name, user, now)
                 t == NewTask
             IN /\ cooldowns' = res.cooldowns
                /\ timers' = res.timers
                /\ routed' = Route("command", name, user, res.outcome,
                                   res.timeLeft, ToFixed1(res.timeLeft))
                /\ IF res.outcome = "Throttled"
                   THEN /\ tasks' = Suspend(ThrottledTask(t))
                        /\ emitted' = {}
                        /\ UNCHANGED lastAllowed
                   ELSE /\ tasks' = Suspend(AllowedTask(t))
                        /\ lastAllowed' = Put(lastAllowed, <<name, user>>, now)
                        /\ emitted' = {}
  /\ UNCHANGED <<env, initPc, diagnostic, loginCalls, ready, readyFired,
                 exitCode, exitTimers, shutdownRuns, destroyCalls, faults,
                 now>>

\* The handler of a 'ticket_' button: await handleTicketButton(interaction,
\* client) suspends the handler.
ButtonTask(t) ==
  [t EXCEPT !.outcome = "Delegated", !.pc = "delegate", !.execCalls = 1]

\* Events.InteractionCreate with interaction.isButton().
Button(customId, user) ==
  /\ Running
  /\ ready
  /\ EventBudget
  /\ nextId' = nextId + 1
  /\ IF StartsWith(customId, TicketPrefix)
     THEN /\ InFlight < MaxInFlight
          /\ tasks' = Suspend(ButtonTask(NewTask))
          /\ routed' = Route("button", customId[1], user, "Delegated", 0, 0)
          /\ emitted' = {}
     ELSE /\ emitted' = {}
          /\ routed' = Route("button", customId[1], user, "Ignored", 0, 0)
          /\ UNCHANGED tasks
  /\ UNCHANGED <<env, initPc, diagnostic, loginCalls, ready, readyFired,
                 exitCode, exitTimers, shutdownRuns, destroyCalls, faults,
                 now, cooldowns, timers, lastAllowed>>

\* Events.InteractionCreate with an interaction that is neither a slash
\* command nor a button: neither branch of the handler is taken.
OtherInteraction ==
  /\ Running
  /\ ready
  /\ EventBudget
  /\ nextId' = nextId + 1
  /\ emitted' = {}
  /\ routed' = Route("other", "", "", "Ignored", 0, 0)
  /\ UNCHANGED <<env, initPc, diagnostic, loginCalls, ready, readyFired,
                 exitCode, exitTimers, shutdownRuns, destroyCalls, faults,
                 now, cooldowns, timers, tasks, lastAllowed>>

\* The promise of the throttle reply settles.  The handler returned it
\* without awaiting it inside the try block, so its rejection is not caught
\* by the catch block: it rejects the promise of the listener itself.
ThrottleReplySettles(t, ok, sink) ==
  /\ Running
  /\ t.pc = "throttleReply"
  /\ tasks' = Finish(t)
  /\ IF ok
     THEN /\ sink = "clientError"
          /\ emitted' = {}
          /\ UNCHANGED <<faults, exitTimers>>
     ELSE /\ ProcessFault(sink, "throttleReply")
          /\ emitted' = {FaultLog(sink)}
  /\ routed' = NoRoute
  /\ UNCHANGED <<env, initPc, diagnostic, loginCalls, ready, readyFired,
                 exitCode, shutdownRuns, destroyCalls, now, cooldowns,
                 timers, nextId, lastAllowed>>

\* await command.execute(...) or await handleTicketButton(...) resolves.
HandlerResolves(t) ==
  /\ Running
  /\ t.pc \in {"execute", "delegate"}
  /\ tasks' = Finish(t)
  /\ emitted' = IF t.outcome = "Allowed" THEN {"command executed"} ELSE {}
  /\ routed' = NoRoute
  /\ UNCHANGED <<env, initPc, diagnostic, loginCalls, ready, readyFired,
                 exitCode, exitTimers, shutdownRuns, destroyCalls, faults,
                 now, cooldowns, timers, nextId, lastAllowed>>

\* await command.execute(...) or await handleTicketButton(...) rejects;
\* acked is interaction.replied || interaction.deferred at that moment.
HandlerRejects(t, acked) ==
  /\ Running
  /\ t.pc \in {"execute", "delegate"}
  /\ tasks' = Finish(t) (+) SetToBag({ErrorNotification([t EXCEPT !.acked = acked])})
  /\ emitted' = {"error handling interaction"}
  /\ routed' = NoRoute
  /\ UNCHANGED <<env, initPc, diagnostic, loginCalls, ready, readyFired,
                 exitCode, exitTimers, shutdownRuns, destroyCalls, faults,
                 now, cooldowns, timers, nextId, lastAllowed>>

\* The error reply or follow-up settles; its .catch logs a rejection.
NotificationSettles(t, ok) ==
  /\ Running
  /\ t.pc = "notify"
  /\ tasks' = Finish(t)
  /\ emitted' = IF ok THEN {}
                ELSE IF t.notice = "followUp"
                     THEN {"could not send error followup"}
                     ELSE {"could not send error reply"}
  /\ routed' = NoRoute
  /\ UNCHANGED <<env, initPc, diagnostic, loginCalls, ready, readyFired,
                 exitCode, exitTimers, shutdownRuns, destroyCalls, faults,
                 now, cooldowns, timers, nextId, lastAllowed>>

\* ----------------------------------------------------------------- time
\* The pairs whose cooldown window is open at time t, with the time of the
\* Allowed invocation that opened it.
OpenWindows(la, t) ==
  [p \in {q \in DOMAIN la : t < la[q] + CooldownAmount(q[1])} |-> la[p]]

\* Some setTimeout callback is not due yet.
TimerPending ==
  \/ \E i \in 1..Len(exitTimers) : exitTimers[i].due > now
  \/ \E i \in 1..Len(timers) : timers[i].due > now

\* Date.now() moves on by one Tick: up to MaxTime, and past it for as long
\* as a timer is still to become due.
AdvanceTime ==
  /\ Running
  /\ initPc \in {"Connecting", "Done"}
  /\ now < MaxTime \/ TimerPending
  /\ now' = now + Tick
  /\ lastAllowed' = OpenWindows(lastAllowed, now')
  /\ emitted' = {}
  /\ routed' = NoRoute
  /\ UNCHANGED <<env, initPc, diagnostic, loginCalls, ready, readyFired,
                 exitCode, exitTimers, shutdownRuns, destroyCalls,
                 faults, cooldowns, timers, tasks, nextId>>

\* The steady state: init() has returned and the ClientReady listener has
\* run without a fault.
Serving ==
  /\ env = [v \in EnvNames |-> "value"]
  /\ initPc = "Done"
  /\ diagnostic = <<>>
  /\ loginCalls = 1
  /\ ready = TRUE
  /\ readyFired = TRUE
  /\ exitCode = <<>>
  /\ exitTimers = <<>>
  /\ shutdownRuns = 0
  /\ destroyCalls = 0
  /\ faults = {}

ServingInit ==
  /\ Serving
  /\ now = 0
  /\ cooldowns = EmptyMap
  /\ timers = <<>>
  /\ tasks = EmptyBag
  /\ nextId = 1
  /\ lastAllowed = EmptyMap
  /\ emitted = {}
  /\ routed = NoRoute

\* The lifecycle state of the specification, read off the program state:
\* Terminated once process.exit ran; ShuttingDown once gracefulShutdown
\* ran; Ready while client.isReady(); before that, the position of init().
LifecycleState ==
  IF exitCode # <<>> THEN "Terminated"
  ELSE IF shutdownRuns > 0 THEN "ShuttingDown"
  ELSE IF ready THEN "Ready"
  ELSE IF initPc = "Done" THEN "Connecting"
  ELSE initPc

LifecycleNext ==
  \/ StartInit
  \/ CheckRequiredEnvVars
  \/ LoginResolves
  \/ LoginRejects
  \/ \E kind \in FaultKinds : ExternalFault(kind)
  \/ \E sig \in TerminationSignals : Signal(sig)
  \/ \E i \in 1..Len(exitTimers) : ExitTimerFires(i)
  \/ \E reg \in StartupOutcomes, tick \in StartupOutcomes, kind \in FaultKinds :
       ClientReady(reg, tick, kind)
  \/ AdvanceTime

RouterNext ==
  \/ \E name \in InteractionNames, user \in Users :
       ChatInputCommand(name, user)
  \/ \E customId \in CustomIds : Button(customId, ButtonUser)
  \/ OtherInteraction
  \/ \E t \in Suspended, ok \in BOOLEAN, sink \in RejectionSinks :
       ThrottleReplySettles(t, ok, sink)
  \/ \E t \in Suspended : HandlerResolves(t)
  \/ \E t \in Suspended, acked \in BOOLEAN : HandlerRejects(t, acked)
  \/ \E t \in Suspended, ok \in BOOLEAN : NotificationSettles(t, ok)
  \/ \E i \in 1..Len(timers) : RemovalTimerFires(i)
  \/ AdvanceTime

Next == LifecycleNext \/ RouterNext

\* The whole program, from process start.
Spec == Init /\ [][Next]_vars

\* The process lifecycle, from process start, with no interaction arriving.
LifecycleSpec == Init /\ [][LifecycleNext]_vars

\* The interaction handler in the steady state, with no signal and no fault
\* raised outside it.
RouterSpec == ServingInit /\ [][RouterNext]_vars

\* The steady state with everything that can happen to it: interactions,
\* termination signals, faults raised outside this file, timers.
ServingNext ==
  \/ RouterNext
  \/ \E sig \in TerminationSignals : Signal(sig)
  \/ \E kind \in FaultKinds : ExternalFault(kind)
  \/ \E i \in 1..Len(exitTimers) : ExitTimerFires(i)

\* Fair scheduling of the event loop: the clock moves on, and a setTimeout
\* callback that is due runs.  Nothing makes a suspended handler's await
\* settle.
TimerFairness ==
  /\ WF_vars(AdvanceTime)
  /\ WF_vars(\E i \in 1..Len(exitTimers) : ExitTimerFires(i))
  /\ WF_vars(\E i \in 1..Len(timers) : RemovalTimerFires(i))

FairServingSpec == ServingInit /\ [][ServingNext]_vars /\ TimerFairness

\* The cooldown registry on its own: slash commands, whose handlers stay
\* suspended, the removal timers and the clock.
CooldownNext ==
  \/ \E name \in InteractionNames, user \in Users :
       ChatInputCommand(name, user)
  \/ \E i \in 1..Len(timers) : RemovalTimerFires(i)
  \/ AdvanceTime

FairCooldownSpec == ServingInit /\ [][CooldownNext]_vars /\ TimerFairness

\* ================================================================ claims
\* The pair of the command interaction routed by the latest step.
RoutedPair == <<routed.name, routed.user>>

\* The latest step ran the cooldown check of a registered command.
Checked == routed.kind = "command" /\ routed.outcome \in {"Allowed", "Throttled"}

\* The registry entry of a pair: <<timestamp>>, or <<>> when there is none.
Entry(cds, p) ==
  IF p[1] \in DOMAIN cds /\ p[2] \in DOMAIN cds[p[1]] THEN <<cds[p[1]][p[2]]>>
  ELSE <<>>

Pairs == CommandNames \X Users

\* The pending removal timers of a pair.
TimersOf(tms, p) ==
  {i \in 1..Len(tms) : tms[i].name = p[1] /\ tms[i].user = p[2]}

\* C1: an invocation of command C by user U at a time inside the cooldown
\* window opened by the latest Allowed invocation of C by U is Throttled, and
\* the remaining time it reports is positive and at most the cooldown.
C1_ThrottledInsideWindow ==
  [][(Checked' /\ RoutedPair' \in DOMAIN lastAllowed)
       => /\ routed'.outcome = "Throttled"
          /\ 0 < routed'.timeLeft
          /\ routed'.timeLeft <= CooldownAmount(routed'.name)]_vars

\* C2: a Throttled invocation leaves the registry and its timers as they
\* were, and an invocation of C by U made when no cooldown window of (C, U)
\* is open (none was ever opened, or the latest one has elapsed, whatever
\* was throttled inside it) is Allowed and records a window starting now.
C2_ThrottledDoesNotExtend ==
  [][/\ (Checked' /\ routed'.outcome = "Throttled")
          => (cooldowns' = cooldowns /\ timers' = timers
              /\ lastAllowed' = lastAllowed)
     /\ (Checked' /\ RoutedPair' \notin DOMAIN lastAllowed)
          => /\ routed'.outcome = "Allowed"
             /\ Entry(cooldowns', RoutedPair') = <<now>>
             /\ lastAllowed'[RoutedPair'] = now]_vars

\* C2 witness: (ping, U1) was Allowed, Throttled inside that window, and is
\* Allowed again once the window has elapsed.
C2_Witness ==
  /\ Checked
  /\ routed.outcome = "Allowed"
  /\ RoutedPair = <<"ping", "U1">>
  /\ nextId = 4
  /\ Cardinality(TimersOf(timers, RoutedPair)) = 2
  /\ \E t \in Suspended : t.outcome = "Throttled"

\* C3: a step changes the registry entry of a pair only if it is the
\* handling of an invocation of that pair or the firing of a removal timer
\* of that pair; the entries of all other pairs stay as they were.
C3_PerPairFrame ==
  [][\A p \in Pairs :
       Entry(cooldowns', p) # Entry(cooldowns, p)
         => \/ Checked' /\ RoutedPair' = p
            \/ \E i \in TimersOf(timers, p) :
                 timers[i].due <= now /\ timers' = RemoveAt(timers, i)]_vars

\* C3 witness: U2 is Allowed on ping while the window of (ping, U1) is open,
\* and U1 is Allowed on info while the window of (ping, U1) is open.
C3_Witness ==
  /\ Checked
  /\ routed.outcome = "Allowed"
  /\ RoutedPair = <<"ping", "U2">>
  /\ <<"ping", "U1">> \in DOMAIN lastAllowed
  /\ <<"info", "U1">> \in DOMAIN lastAllowed
  /\ Entry(cooldowns, <<"ping", "U1">>) # <<>>

\* The number of suspended handlers that satisfy P.
CountTasks(b, P(_)) ==
  LET S == {t \in BagToSet(b) : P(t)}
      sum[T \in SUBSET S] ==
        IF T = {} THEN 0
        ELSE LET t == CHOOSE x \in T : TRUE
             IN CopiesIn(t, b) + sum[T \ {t}]
  IN sum[S]

IsThrottledTask(t) == t.outcome = "Throttled"

IsNotifying(t) == t.pc = "notify"

\* What process-level termination depends on.
processVars == <<initPc, ready, exitCode, exitTimers, shutdownRuns,
                 destroyCalls, faults>>

\* C4: the handler of a Throttled slash command never calls the command's
\* execute: while it is suspended it has sent exactly one reply (the
\* throttle reply) and called nothing, and when that reply settles the
\* handler ends without sending anything else.
C4_ThrottledNeverExecutes ==
  [][/\ \A t \in BagToSet(tasks') :
          IsThrottledTask(t)
            => t.pc = "throttleReply" /\ t.execCalls = 0 /\ t.replies = 1
     /\ (Checked' /\ routed'.outcome = "Throttled")
          => /\ CountTasks(tasks', IsThrottledTask)
                  = CountTasks(tasks, IsThrottledTask) + 1
             /\ BagCardinality(tasks') = BagCardinality(tasks) + 1
     /\ CountTasks(tasks', IsThrottledTask) < CountTasks(tasks, IsThrottledTask)
          => BagCardinality(tasks') = BagCardinality(tasks) - 1]_vars

\* C4 witness: a command was throttled and its handler is suspended on the
\* throttle reply.
C4_Witness ==
  /\ Checked
  /\ routed.outcome = "Throttled"
  /\ routed.shown > 0
  /\ \E t \in Suspended : t.pc = "throttleReply"

\* C5: when execute throws or rejects, the handler sends exactly one error
\* notification (a reply or a follow-up), and neither the failure nor the
\* settling of the notification touches the process: no exit, no exit
\* timer, no process-level fault, the client stays ready.
C5_OneNotificationNoExit ==
  [][/\ \A t \in BagToSet(tasks') :
          IsNotifying(t)
            => /\ t.replies = 1
               /\ t.execCalls = 1
               /\ t.notice = IF t.acked THEN "followUp" ELSE "reply"
     /\ "error handling interaction" \in emitted'
          => /\ CountTasks(tasks', IsNotifying)
                  = CountTasks(tasks, IsNotifying) + 1
             /\ BagCardinality(tasks') = BagCardinality(tasks)
             /\ UNCHANGED processVars
     /\ CountTasks(tasks', IsNotifying) < CountTasks(tasks, IsNotifying)
          => /\ BagCardinality(tasks') = BagCardinality(tasks) - 1
             /\ UNCHANGED processVars]_vars

\* C5 witness: a command's execute has failed, its handler is sending the
\* error notification, and a later command has just been dispatched.
C5_Witness ==
  /\ \E t \in Suspended : IsNotifying(t) /\ t.outcome = "Allowed"
  /\ Checked
  /\ routed.outcome = "Allowed"
  /\ ready
  /\ Running

RouterOrigins == {"throttleReply", "execute", "delegate", "notification"}

\* C6: every failure of a call made by the interaction handler (execute,
\* the ticket delegate, a reply the handler sends, the throttle reply
\* included) is caught inside the handler: none escapes it, to the
\* process-level fault handlers or anywhere else.
C6_NoRouterFaultEscapes == \A f \in faults : f.origin \notin RouterOrigins

\* The required environment values that are missing: unset, or empty.
Missing == {v \in EnvNames : env[v] \in {"unset", ""}}

\* checkRequiredEnvVars has run.
Validated == initPc \notin {"Uninitialized", "Validating"} \/ exitCode # <<>>

\* C7: once startup validation has run, if some required environment value
\* is missing then the diagnostic lists exactly the missing ones, the
\* process has exited with status 1 and login was never called; if none is
\* missing, no diagnostic was printed and login was called.
C7_DiagnosticListsMissing ==
  Validated =>
    IF Missing # {}
    THEN /\ Range(diagnostic) = Missing
         /\ Len(diagnostic) = Cardinality(Missing)
         /\ exitCode = <<1>>
         /\ loginCalls = 0
         /\ initPc = "Validating"
    ELSE /\ diagnostic = <<>>
         /\ loginCalls = 1

\* C7 witness: both values are missing (one unset, one empty) and both are
\* listed.
C7_Witness ==
  /\ Validated
  /\ env["DISCORD_TOKEN"] = "unset"
  /\ env["CLIENT_ID"] = ""
  /\ Len(diagnostic) = 2
  /\ exitCode = <<1>>

\* C8: the teardown sequence of gracefulShutdown (log line, closing the
\* gateway session, scheduling the exit) runs at most once per process.
C8_TeardownOnce ==
  /\ shutdownRuns <= 1
  /\ Cardinality({i \in 1..Len(exitTimers) : exitTimers[i].code = 0}) <= 1

ChainSteps ==
  {<<"Uninitialized", "Validating">>, <<"Validating", "Connecting">>,
   <<"Connecting", "Ready">>, <<"Ready", "ShuttingDown">>,
   <<"ShuttingDown", "Terminated">>}

\* C9: the lifecycle moves only along Uninitialized -> Validating ->
\* Connecting -> Ready -> ShuttingDown -> Terminated, except that Validating
\* and Connecting may exit directly with a non-zero status; ShuttingDown
\* is entered only from Ready, and the client never becomes ready once
\* shutdown has begun.
C9_LifecycleChain ==
  [][/\ LifecycleState' # LifecycleState
          => \/ <<LifecycleState, LifecycleState'>> \in ChainSteps
             \/ /\ LifecycleState \in {"Validating", "Connecting"}
                /\ LifecycleState' = "Terminated"
                /\ exitCode' # <<0>>
     /\ LifecycleState = "ShuttingDown" => ~(ready' /\ ~ready)]_vars

HasFault(kind) == \E f \in faults : f.kind = kind

ExitOnePending == \E i \in 1..Len(exitTimers) : exitTimers[i].code = 1

C11_SessionClosedBeforeExit ==
  (readyFired /\ exitCode # <<>>)
    => /\ destroyCalls >= 1
       /\ ~ready
       /\ exitCode = <<0>> => shutdownRuns >= 1
       /\ exitCode = <<1>> => HasFault("uncaughtException")

\* C12: once a termination signal has run gracefulShutdown, the process
\* eventually exits, whatever handlers are suspended and whether or not
\* their awaits ever settle: until the process exits, an exit with status 0
\* stays scheduled; the signal and the exit leave the suspended handlers
\* as they are.
C12_SignalLeadsToExit ==
  /\ (shutdownRuns > 0) ~> (exitCode # <<>>)
  /\ [](shutdownRuns > 0
          => \/ exitCode # <<>>
             \/ \E i \in 1..Len(exitTimers) : exitTimers[i].code = 0)
  /\ [][(shutdownRuns' # shutdownRuns \/ exitCode' # exitCode)
          => tasks' = tasks]_vars

\* C12 witness: the process has exited with status 0 after a signal
\* received in Ready, while a handler is still suspended in execute.
C12_Witness ==
  /\ exitCode = <<0>>
  /\ destroyCalls = 1
  /\ \E t \in Suspended : t.pc = "execute"

\* C13: a slash command whose name client.commands does not hold writes
\* the warning and nothing else: no handler is suspended (so nothing was
\* called and no reply sent), the registry has the same per-command maps
\* and the same entries, no removal timer is set, and the process state is
\* untouched.
C13_UnknownCommandOnlyWarns ==
  [][(routed'.kind = "command" /\ routed'.name \notin {"ping", "info"})
       => /\ routed'.outcome = "Unknown"
          /\ emitted' = {"command not found"}
          /\ tasks' = tasks
          /\ cooldowns' = cooldowns
          /\ DOMAIN cooldowns' = DOMAIN cooldowns
          /\ timers' = timers
          /\ UNCHANGED processVars]_vars

\* C13 witness: an unknown command has just been dropped while the
\* registry holds an entry and a handler is suspended.
C13_Witness ==
  /\ routed.kind = "command"
  /\ routed.name = "gone"
  /\ routed.outcome = "Unknown"
  /\ "command not found" \in emitted
  /\ \E p \in Pairs : Entry(cooldowns, p) # <<>>
  /\ tasks # EmptyBag

\* C14: a step suspends at most one handler.  A button whose customId starts
\* with 'ticket_' suspends exactly one handler, inside handleTicketButton,
\* called once, with no reply sent; any other button suspends none and
\* logs nothing.  No button changes the cooldown registry, its timers or
\* the process state, and a delegated handler is never inside a command's
\* execute.
C14_ButtonDispatch ==
  [][/\ BagCardinality(tasks') <= BagCardinality(tasks) + 1
     /\ routed'.kind = "button"
          => /\ cooldowns' = cooldowns
             /\ timers' = timers
             /\ UNCHANGED processVars
             /\ emitted' = {}
             /\ IF routed'.name = "ticket_"
                THEN /\ routed'.outcome = "Delegated"
                     /\ tasks' = tasks (+) SetToBag({
                          [outcome |-> "Delegated", pc |-> "delegate",
                           execCalls |-> 1, replies |-> 0,
                           notice |-> "none", acked |-> FALSE]})
                ELSE /\ routed'.outcome = "Ignored"
                     /\ tasks' = tasks
     /\ \A t \in BagToSet(tasks') :
          t.outcome = "Delegated"
            => t.pc \in {"delegate", "notify"} /\ t.execCalls = 1]_vars

\* C14 witness: a 'ticket_' button has just been delegated while a command
\* handler is suspended in execute and the registry holds its entry.
C14_Witness ==
  /\ routed.kind = "button"
  /\ routed.outcome = "Delegated"
  /\ \E t \in Suspended : t.pc = "delegate"
  /\ \E t \in Suspended : t.pc = "execute"
  /\ \E p \in Pairs : Entry(cooldowns, p) # <<>>

\* C15: the step of the ClientReady listener, whatever its two startup
\* actions (registerCommands, initializeTicketSystem) do, logs their
\* failures, leaves the client ready and triggers no exit: no exit timer is
\* set and the process does not exit.
C15_StartupFailuresDoNotCrash ==
  [][(readyFired' /\ ~readyFired)
       => /\ ready'
          /\ exitTimers' = exitTimers
          /\ exitCode' = <<>>
          /\ \A f \in faults' \ faults : FaultLog(f.kind) \in emitted']_vars

\* C16: when client.login rejects, the step logs the failure and exits with
\* status 1 at once, performing no teardown of its own (gracefulShutdown is
\* not run, client.destroy is not called, no exit timer is set); and when
\* the lifecycle was in Connecting at that moment, the process has never
\* been Ready or ShuttingDown: the ClientReady listener never ran.
C16_LoginFailureExits ==
  [][("initialization error" \in emitted')
       => /\ exitCode = <<>>
          /\ exitCode' = <<1>>
          /\ UNCHANGED <<ready, readyFired, shutdownRuns, destroyCalls,
                         exitTimers>>
          /\ LifecycleState = "Connecting"
               => /\ ~readyFired'
                  /\ ~ready'
                  /\ shutdownRuns' = 0
                  /\ destroyCalls' = 0
                  /\ LifecycleState' = "Terminated"]_vars

\* C16 witness: login was called, some time passed, login rejected and the
\* process has exited with status 1 without the ClientReady listener or
\* gracefulShutdown having run.
C16_Witness ==
  /\ "initialization error" \in emitted
  /\ exitCode = <<1>>
  /\ loginCalls = 1
  /\ now > 0
  /\ ~readyFired
  /\ shutdownRuns = 0

DeliveryFailureLogs ==
  {"could not send error followup", "could not send error reply"}

\* C17: when the handler catches a failure, the handler that was suspended
\* in execute or in the ticket delegate becomes one that waits for its
\* error notification: a reply when the interaction was neither replied to
\* nor deferred, a follow-up otherwise.  When the notification settles the
\* handler ends; a delivery failure is logged with the line of the kind of
\* notification that was sent, and reaches neither the client's Error
\* listener nor a process-level handler.
C17_NotificationKindAndDelivery ==
  [][/\ "error handling interaction" \in emitted'
          => \E old \in BagToSet(tasks), acked \in BOOLEAN :
               /\ old.pc \in {"execute", "delegate"}
               /\ tasks' = (tasks (-) SetToBag({old})) (+) SetToBag({
                    [old EXCEPT !.pc = "notify", !.acked = acked,
                                !.replies = old.replies + 1,
                                !.notice = IF acked THEN "followUp"
                                           ELSE "reply"]})
     /\ CountTasks(tasks', IsNotifying) < CountTasks(tasks, IsNotifying)
          => /\ \E t \in BagToSet(tasks) :
                  /\ IsNotifying(t)
                  /\ tasks' = tasks (-) SetToBag({t})
                  /\ emitted' \in {{}, {IF t.notice = "followUp"
                                        THEN "could not send error followup"
                                        ELSE "could not send error reply"}}
             /\ faults' = faults
             /\ UNCHANGED processVars
     /\ emitted' \cap DeliveryFailureLogs # {}
          => CountTasks(tasks', IsNotifying) < CountTasks(tasks, IsNotifying)]_vars

\* C17 witness: the follow-up of an interaction that had been replied to or
\* deferred could not be delivered; that was logged, no fault was raised
\* and the process runs on.
C17_Witness ==
  /\ emitted = {"could not send error followup"}
  /\ faults = {}
  /\ Running
  /\ ready

\* Every interaction received so far has suspended a handler, and each of
\* those handlers is still at its first await: in particular the handler of
\* every Allowed invocation is still suspended inside execute.
NoneSettled ==
  /\ BagCardinality(tasks) = nextId - 1
  /\ \A t \in Suspended : t.pc \in {"execute", "throttleReply", "delegate"}

\* C18: when C is invoked by U while the handler of the latest Allowed
\* invocation of C by U is still suspended inside execute and the cooldown
\* window of that invocation is open, the new invocation is Throttled: its
\* handler sends the throttle reply and does not call execute.
C18_OverlapOnlyFirstExecutes ==
  [][(Checked' /\ RoutedPair' \in DOMAIN lastAllowed /\ NoneSettled)
       => /\ routed'.outcome = "Throttled"
          /\ tasks' = tasks (+) SetToBag({
               [outcome |-> "Throttled", pc |-> "throttleReply",
                execCalls |-> 0, replies |-> 1, notice |-> "none",
                acked |-> FALSE]})]_vars

\* C19: the entry recorded by the latest Allowed invocation of (C, U), at
\* time t, is in the registry with timestamp t at every instant of its
\* cooldown window [t, t + N), whatever removal timers have run.
C19_EntryKeptThroughWindow ==
  \A p \in DOMAIN lastAllowed : Entry(cooldowns, p) = <<lastAllowed[p]>>

\* The pairs that have an entry in the registry, and those with a pending
\* removal timer.
Cooled == {p \in Pairs : Entry(cooldowns, p) # <<>>}

Scheduled == {p \in Pairs : TimersOf(timers, p) # {}}

\* C20: under fair timers every entry of the registry is eventually
\* removed, and once interactions have stopped the registry ends up with no
\* per-caller entry for good; at every moment there are at most as many
\* entries as pairs with a pending removal timer (every pair that has an
\* entry has one).
C20_EntriesDoNotAccumulate ==
  /\ \A p \in Pairs : (p \in Cooled) ~> (p \notin Cooled)
  /\ <>[](Cooled = {})
  /\ [](Cooled \subseteq Scheduled)
  /\ [](Cardinality(Cooled) <= Cardinality(Scheduled))

\* C20 witness: entries of several pairs were recorded, all interactions
\* have been received, every timer has run and the registry holds the
\* per-command collections, all empty.
C20_Witness ==
  /\ nextId = MaxEvents + 1
  /\ DOMAIN cooldowns = {"ping", "info"}
  /\ Cooled = {}
  /\ timers = <<>>

====
